---- MODULE Spec2Model ----
(***************************************************************************)
(* Record model, persistence codec and generators of libmanta's moray.rs.  *)
(*                                                                         *)
(* Strings are sequences of one-character strings, so that key renaming,   *)
(* UUID text and storage identifiers are computed character by character.  *)
(* A JSON value is a tagged record; a JSON object keeps its entries as an  *)
(* ordered sequence of <<key, value>> pairs (input may repeat a key).      *)
(***************************************************************************)
EXTENDS Integers, Sequences, FiniteSets, TLC

VARIABLES op, mobj, shark, arg, cell, payload, res, res2

vars == <<op, mobj, shark, arg, cell, payload, res, res2>>

(***************************************************************************)
(* Characters                                                              *)
(***************************************************************************)
Lowercase == <<"a","b","c","d","e","f","g","h","i","j","k","l","m","n","o","p","q","r","s","t","u","v","w","x","y","z">>

Uppercase == <<"A","B","C","D","E","F","G","H","I","J","K","L","M","N","O","P","Q","R","S","T","U","V","W","X","Y","Z">>

Digits == <<"0","1","2","3","4","5","6","7","8","9">>

\* The characters the model uses, in ASCII order.
Ascii == <<"!","-",".","0","1","2","3","4","5","6","7","8","9",":","A","B","C","D","E","F","G","H","I","J","K","L","M","N","O","P","Q","R","S","T","U","V","W","X","Y","Z","_","a","b","c","d","e","f","g","h","i","j","k","l","m","n","o","p","q","r","s","t","u","v","w","x","y","z">>

Range(s) == {s[i] : i \in 1..Len(s)}

IndexOf(s, c) == CHOOSE i \in 1..Len(s) : s[i] = c

IsLower(c) == c \in Range(Lowercase)

IsUpper(c) == c \in Range(Uppercase)

IsDigit(c) == c \in Range(Digits)

to_ascii_uppercase(c) == IF IsLower(c) THEN Uppercase[IndexOf(Lowercase, c)] ELSE c

to_ascii_lowercase(c) == IF IsUpper(c) THEN Lowercase[IndexOf(Uppercase, c)] ELSE c

RECURSIVE StrLess(_, _)
\* Byte-wise lexicographic order of two strings (the key order of a map).
StrLess(a, b) ==
    IF Len(b) = 0 THEN FALSE
    ELSE IF Len(a) = 0 THEN TRUE
    ELSE IF a[1] = b[1] THEN StrLess(Tail(a), Tail(b))
    ELSE IndexOf(Ascii, a[1]) < IndexOf(Ascii, b[1])

(***************************************************************************)
(* Results                                                                 *)
(***************************************************************************)
Ok(v) == [ok |-> TRUE, val |-> v]

Err(e) == [ok |-> FALSE, err |-> e]

NoResult == [ok |-> FALSE, err |-> [src |-> "none", kind |-> "", what |-> ""]]

(***************************************************************************)
(* JSON values                                                             *)
(***************************************************************************)
JNull == [t |-> "null"]

JStr(s) == [t |-> "str", s |-> s]

JNum(n) == [t |-> "num", n |-> n]

JArr(a) == [t |-> "arr", a |-> a]

JObj(m) == [t |-> "obj", m |-> m]

RECURSIVE MapInsert(_, _, _)
\* Insertion into a map kept in key order; a repeated key replaces the entry.
MapInsert(m, k, v) ==
    IF Len(m) = 0 THEN << <<k, v>> >>
    ELSE IF m[1][1] = k THEN << <<k, v>> >> \o Tail(m)
    ELSE IF StrLess(k, m[1][1]) THEN << <<k, v>> >> \o m
    ELSE << m[1] >> \o MapInsert(Tail(m), k, v)

RECURSIVE ToValue(_)
RECURSIVE ToValueMap(_, _, _)
\* Deserialization of a field of type serde_json::Value: any JSON value is
\* accepted; an object becomes a Map (unique keys, key order).
ToValue(j) ==
    CASE j.t = "obj" -> JObj(ToValueMap(j.m, 1, <<>>))
      [] j.t = "arr" -> JArr([i \in 1..Len(j.a) |-> ToValue(j.a[i])])
      [] OTHER -> j

ToValueMap(pairs, i, acc) ==
    IF i > Len(pairs) THEN acc
    ELSE ToValueMap(pairs, i + 1, MapInsert(acc, pairs[i][1], ToValue(pairs[i][2])))

(***************************************************************************)
(* Field naming: #[serde(rename_all = "camelCase")]                        *)
(***************************************************************************)
RECURSIVE PascalCase(_, _)
\* "_" is dropped and the character after it (and the first) is upper-cased.
PascalCase(field, capitalize) ==
    IF Len(field) = 0 THEN <<>>
    ELSE IF field[1] = "_" THEN PascalCase(Tail(field), TRUE)
    ELSE IF capitalize THEN <<to_ascii_uppercase(field[1])>> \o PascalCase(Tail(field), FALSE)
    ELSE <<field[1]>> \o PascalCase(Tail(field), FALSE)

CamelCase(field) ==
    LET pascal == PascalCase(field, TRUE)
    IN  IF Len(pascal) = 0 THEN pascal
        ELSE <<to_ascii_lowercase(pascal[1])>> \o Tail(pascal)

(***************************************************************************)
(* The three record shapes                                                 *)
(***************************************************************************)
\* Rust identifier of each field.
Ident(f) ==
    CASE f = "headers" -> <<"h","e","a","d","e","r","s">>
      [] f = "key" -> <<"k","e","y">>
      [] f = "mtime" -> <<"m","t","i","m","e">>
      [] f = "name" -> <<"n","a","m","e">>
      [] f = "creator" -> <<"c","r","e","a","t","o","r">>
      [] f = "dirname" -> <<"d","i","r","n","a","m","e">>
      [] f = "owner" -> <<"o","w","n","e","r">>
      [] f = "roles" -> <<"r","o","l","e","s">>
      [] f = "vnode" -> <<"v","n","o","d","e">>
      [] f = "content_length" -> <<"c","o","n","t","e","n","t","_","l","e","n","g","t","h">>
      [] f = "content_md5" -> <<"c","o","n","t","e","n","t","_","m","d","5">>
      [] f = "content_type" -> <<"c","o","n","t","e","n","t","_","t","y","p","e">>
      [] f = "object_id" -> <<"o","b","j","e","c","t","_","i","d">>
      [] f = "etag" -> <<"e","t","a","g">>
      [] f = "sharks" -> <<"s","h","a","r","k","s">>
      [] f = "obj_type" -> <<"o","b","j","_","t","y","p","e">>
      [] f = "datacenter" -> <<"d","a","t","a","c","e","n","t","e","r">>
      [] f = "manta_storage_id" -> <<"m","a","n","t","a","_","s","t","o","r","a","g","e","_","i","d">>

\* Fields in declaration order (the order serialization emits them).
MantaObjectFields == <<"headers", "key", "mtime", "name", "creator", "dirname", "owner", "roles", "vnode", "content_length", "content_md5", "content_type", "object_id", "etag", "sharks", "obj_type">>

MantaObjectSharkFields == <<"datacenter", "manta_storage_id">>

MantaDirectoryFields == <<"creator", "dirname", "headers", "key", "mtime", "name", "owner", "roles", "vnode">>

Fields(S) ==
    CASE S = "MantaObject" -> MantaObjectFields
      [] S = "MantaObjectShark" -> MantaObjectSharkFields
      [] S = "MantaDirectory" -> MantaDirectoryFields

FieldType(f) ==
    CASE f = "headers" -> "Value"
      [] f \in {"mtime", "vnode", "content_length"} -> "u64"
      [] f = "roles" -> "VecString"
      [] f = "sharks" -> "VecShark"
      [] OTHER -> "String"

RenameAll_None(S, ident) == ident

\* Only MantaObject carries rename_all; the other two keep their identifiers.
RenameAll(S, ident) == IF S = "MantaObject" THEN CamelCase(ident) ELSE ident

SerName_TypeKey(S, f) ==
    IF S = "MantaObject" /\ f = "obj_type" THEN <<"t","y","p","e">>
    ELSE RenameAll(S, Ident(f))

\* The key a field is serialized under.
SerName(S, f) == RenameAll(S, Ident(f))

\* #[serde(alias = "...")] of a field.
Aliases(S, f) ==
    IF S # "MantaObject" THEN {}
    ELSE CASE f = "content_length" -> {<<"c","o","n","t","e","n","t","L","e","n","g","t","h">>}
           [] f = "content_md5" -> {<<"c","o","n","t","e","n","t","M","D","5">>}
           [] f = "content_type" -> {<<"c","o","n","t","e","n","t","T","y","p","e">>}
           [] f = "object_id" -> {<<"o","b","j","e","c","t","I","d">>}
           [] f = "obj_type" -> {<<"t","y","p","e">>}
           [] OTHER -> {}

DeNames_AliasOnly(S, f) == IF Aliases(S, f) = {} THEN {SerName(S, f)} ELSE Aliases(S, f)

DeNames_NoAlias(S, f) == {SerName(S, f)}

\* The keys a field is accepted under: its (renamed) name and its aliases.
DeNames(S, f) == {SerName(S, f)} \cup Aliases(S, f)

HasDefault_Roles(S, f) ==
    \/ S = "MantaObject" /\ f \in {"content_length", "content_md5", "content_type", "object_id", "etag", "sharks", "obj_type"}
    \/ f = "roles"

HasDefault_NoEtag(S, f) ==
    S = "MantaObject" /\ f \in {"content_length", "content_md5", "content_type", "object_id", "sharks", "obj_type"}

\* Fields marked #[serde(default)].
HasDefault(S, f) ==
    S = "MantaObject" /\ f \in {"content_length", "content_md5", "content_type", "object_id", "etag", "sharks", "obj_type"}

\* Default::default() of a field type.
DefaultOf(ty) ==
    CASE ty = "Value" -> JNull
      [] ty = "u64" -> 0
      [] OTHER -> <<>>

(***************************************************************************)
(* Errors                                                                  *)
(***************************************************************************)
\* A serde_json::Error (boxed by the `?` of from_sql).
SerdeError(kind, what) == Err([src |-> "serde_json", kind |-> kind, what |-> what])

\* diesel's UnexpectedNullError, returned by not_none! on None.
UnexpectedNullError == Err([src |-> "diesel", kind |-> "UnexpectedNullError", what |-> ""])

(***************************************************************************)
(* Serialize / Deserialize of the record shapes                            *)
(***************************************************************************)
Structs == {"MantaObject", "MantaObjectShark", "MantaDirectory"}

\* The generated key of each field of each shape.
SerKeys == [S \in Structs |-> [f \in Range(Fields(S)) |-> SerName(S, f)]]

RECURSIVE Serialize_Struct(_, _)
RECURSIVE ToJson(_, _)
\* derive(Serialize): one entry per field, in declaration order.
Serialize_Struct(S, r) ==
    JObj([i \in 1..Len(Fields(S)) |->
            <<SerKeys[S][Fields(S)[i]], ToJson(FieldType(Fields(S)[i]), r[Fields(S)[i]])>>])

ToJson(ty, v) ==
    CASE ty = "Value" -> v
      [] ty = "String" -> JStr(v)
      [] ty = "u64" -> JNum(v)
      [] ty = "VecString" -> JArr([i \in 1..Len(v) |-> JStr(v[i])])
      [] ty = "VecShark" -> JArr([i \in 1..Len(v) |-> Serialize_Struct("MantaObjectShark", v[i])])

Unset == [set |-> FALSE]

\* The generated field matcher of each shape: accepted key -> field.
FieldKeys == [S \in Structs |-> [f \in Range(Fields(S)) |-> DeNames(S, f)]]

\* The field of S that accepts key k, or "" when the key is unknown.
FieldFor(S, k) ==
    IF \E f \in Range(Fields(S)) : k \in FieldKeys[S][f]
    THEN CHOOSE f \in Range(Fields(S)) : k \in FieldKeys[S][f]
    ELSE ""

RECURSIVE Deserialize_Struct(_, _)
RECURSIVE FromJson(_, _)
RECURSIVE VisitMap(_, _, _, _)
RECURSIVE FirstError(_, _)

\* The first failed element of a sequence of results.
FirstError(rs, i) == IF ~rs[i].ok THEN rs[i] ELSE FirstError(rs, i + 1)

FromJson(ty, j) ==
    CASE ty = "Value" -> Ok(ToValue(j))
      [] ty = "String" ->
            IF j.t = "str" THEN Ok(j.s) ELSE SerdeError("invalid type", "string")
      [] ty = "u64" ->
            IF j.t = "num" THEN Ok(j.n) ELSE SerdeError("invalid type", "u64")
      [] ty = "VecString" ->
            IF j.t # "arr" THEN SerdeError("invalid type", "sequence")
            ELSE IF \E i \in 1..Len(j.a) : j.a[i].t # "str" THEN SerdeError("invalid type", "string")
            ELSE Ok([i \in 1..Len(j.a) |-> j.a[i].s])
      [] ty = "VecShark" ->
            IF j.t # "arr" THEN SerdeError("invalid type", "sequence")
            ELSE LET rs == [i \in 1..Len(j.a) |-> Deserialize_Struct("MantaObjectShark", j.a[i])]
                 IN  IF \E i \in 1..Len(rs) : ~rs[i].ok THEN FirstError(rs, 1)
                     ELSE Ok([i \in 1..Len(rs) |-> rs[i].val])

\* derive(Deserialize), visit_map: entries are taken in input order; an unknown
\* key is ignored, a second entry for a field is an error, and so is a value
\* of the wrong shape.
VisitMap(S, pairs, i, acc) ==
    IF i > Len(pairs) THEN Ok(acc)
    ELSE LET f == FieldFor(S, pairs[i][1])
         IN  IF f = "" THEN VisitMap(S, pairs, i + 1, acc)
             ELSE IF acc[f].set THEN SerdeError("duplicate field", f)
             ELSE LET v == FromJson(FieldType(f), pairs[i][2])
                  IN  IF ~v.ok THEN v
                      ELSE VisitMap(S, pairs, i + 1, [acc EXCEPT ![f] = [set |-> TRUE, v |-> v.val]])

\* After the entries: a field never seen takes its default if it has one,
\* otherwise the first such field (declaration order) is reported missing.
Deserialize_Struct(S, j) ==
    IF j.t # "obj" THEN SerdeError("invalid type", S)
    ELSE LET seen == VisitMap(S, j.m, 1, [f \in Range(Fields(S)) |-> Unset])
             Missing(i) == ~seen.val[Fields(S)[i]].set /\ ~HasDefault(S, Fields(S)[i])
         IN  IF ~seen.ok THEN seen
             ELSE IF \E i \in 1..Len(Fields(S)) : Missing(i)
             THEN SerdeError("missing field",
                             Fields(S)[CHOOSE i \in 1..Len(Fields(S)) :
                                          Missing(i) /\ \A k \in 1..(i - 1) : ~Missing(k)])
             ELSE Ok([f \in Range(Fields(S)) |->
                        IF seen.val[f].set THEN seen.val[f].v ELSE DefaultOf(FieldType(f))])

(***************************************************************************)
(* ObjectType: #[serde(tag = "type")]                                      *)
(***************************************************************************)
TagKey == <<"t","y","p","e">>

Variants == <<"Object", "Directory">>

VariantIdent(v) ==
    CASE v = "Object" -> <<"O","b","j","e","c","t">>
      [] v = "Directory" -> <<"D","i","r","e","c","t","o","r","y">>

VariantAlias(v) ==
    CASE v = "Object" -> {<<"o","b","j","e","c","t">>}
      [] v = "Directory" -> {<<"d","i","r","e","c","t","o","r","y">>}

VariantStruct(v) == IF v = "Object" THEN "MantaObject" ELSE "MantaDirectory"

VariantNames_AliasOnly(v) == VariantAlias(v)

\* The tag values that select a variant: its name and its alias.
VariantNames(v) == {VariantIdent(v)} \cup VariantAlias(v)

ObjectType(v, r) == [variant |-> v, rec |-> r]

\* Serialization writes the tag entry first, then the fields of the payload.
Serialize_ObjectType(u) ==
    JObj(<< <<TagKey, JStr(VariantIdent(u.variant))>> >>
         \o Serialize_Struct(VariantStruct(u.variant), u.rec).m)

RECURSIVE TaggedContent(_, _, _, _)
\* First pass over the entries: the tag entry is taken out (twice is an
\* error), all other entries are buffered in order.
TaggedContent(pairs, i, tag, content) ==
    IF i > Len(pairs)
    THEN IF tag = Unset THEN SerdeError("missing field", "type")
         ELSE Ok([tag |-> tag.v, content |-> content])
    ELSE IF pairs[i][1] = TagKey
         THEN IF tag # Unset THEN SerdeError("duplicate field", "type")
              ELSE TaggedContent(pairs, i + 1, [set |-> TRUE, v |-> pairs[i][2]], content)
         ELSE TaggedContent(pairs, i + 1, tag, Append(content, pairs[i]))

\* The variant a tag value names, or "" when it names none.
VariantOf(tag) ==
    IF tag.t = "str" /\ \E i \in 1..Len(Variants) : tag.s \in VariantNames(Variants[i])
    THEN Variants[CHOOSE i \in 1..Len(Variants) : tag.s \in VariantNames(Variants[i])]
    ELSE ""

Deserialize_ObjectType(j) ==
    IF j.t # "obj" THEN SerdeError("invalid type", "ObjectType")
    ELSE LET tc == TaggedContent(j.m, 1, Unset, <<>>)
         IN  IF ~tc.ok THEN tc
             ELSE LET v == VariantOf(tc.val.tag)
                  IN  IF v = "" THEN SerdeError("unknown variant", "type")
                      ELSE LET r == Deserialize_Struct(VariantStruct(v), JObj(tc.val.content))
                           IN  IF r.ok THEN Ok(ObjectType(v, r.val)) ELSE r

(***************************************************************************)
(* Persistence codec: ToSql / FromSql for MantaObject                      *)
(***************************************************************************)
\* A column value: NULL, or text.
NullCell == [null |-> TRUE]

TextCell(text) == [null |-> FALSE, text |-> text]

\* Text that is a JSON document, and text that is not.
to_string(j) == [syntax |-> "json", doc |-> j]

NotJson == [syntax |-> "invalid"]

from_str(S, text) ==
    IF text.syntax # "json" THEN SerdeError("syntax", "")
    ELSE Deserialize_Struct(S, text.doc)

to_sql(self) == TextCell(to_string(Serialize_Struct("MantaObject", self)))

from_sql_NullAsEmpty(bytes) ==
    IF bytes.null THEN from_str("MantaObject", NotJson)
    ELSE from_str("MantaObject", bytes.text)

from_sql(bytes) ==
    IF bytes.null THEN UnexpectedNullError
    ELSE from_str("MantaObject", bytes.text)

(***************************************************************************)
(* Input records                                                           *)
(***************************************************************************)
RequiredFields == {"headers", "key", "mtime", "name", "creator", "dirname", "owner", "roles", "vnode"}

OptionalFields == {"content_length", "content_md5", "content_type", "object_id", "etag", "sharks", "obj_type"}

AliasedFields == {"content_length", "content_md5", "content_type", "object_id", "obj_type"}

\* MantaObjectShark::default() and MantaObject::default().
DefaultShark == [datacenter |-> <<>>, manta_storage_id |-> <<>>]

DefaultObject == [f \in Range(MantaObjectFields) |-> DefaultOf(FieldType(f))]

Shark1 == [datacenter |-> <<"d","c","1">>, manta_storage_id |-> <<"1",".","s","t","o","r",".","e","x">>]

Shark2 == [datacenter |-> <<"d","c","2">>, manta_storage_id |-> <<"2",".","s","t","o","r",".","e","x">>]

HeadersOf(h) ==
    CASE h = 1 -> JObj(<< <<(<<"a">>), JStr(<<"x">>)>>, <<(<<"b","_","c">>), JStr(<<>>)>> >>)
      [] h = 2 -> JNull
      [] OTHER -> JObj(<<>>)

\* A populated record (b = 1) or the all-zero record (b = 2) ...
BaseObject(b) ==
    IF b = 1
    THEN [DefaultObject EXCEPT !.headers = HeadersOf(1), !.key = <<"o","b","j","1">>,
                               !.mtime = 100, !.name = <<"n">>, !.creator = <<"c">>,
                               !.dirname = <<"d">>, !.owner = <<"o">>,
                               !.roles = << <<"r","1">>, <<"r","2">> >>, !.vnode = 7]
    ELSE DefaultObject

NonDefault(f) ==
    CASE f = "content_length" -> 42
      [] f = "content_md5" -> <<"m","d">>
      [] f = "content_type" -> <<"c","t">>
      [] f = "object_id" -> <<"i","d">>
      [] f = "etag" -> <<"e","t">>
      [] f = "sharks" -> <<Shark1, Shark2>>
      [] f = "obj_type" -> <<"o","b","j","e","c","t">>

\* ... with the optional fields of nd populated and headers of shape h.
MkObject(b, nd, h) ==
    [f \in Range(MantaObjectFields) |->
        IF f \in nd THEN NonDefault(f)
        ELSE IF f = "headers" THEN HeadersOf(h)
        ELSE BaseObject(b)[f]]

\* How many headers shapes the input records take.
MaxHeaders == 3

CodecObjects == {MkObject(b, nd, h) : b \in 1..2, nd \in SUBSET OptionalFields, h \in 1..MaxHeaders}

Objects == {MkObject(b, nd, b) : b \in 1..2, nd \in {{}, OptionalFields, {"obj_type"}}}

\* The directory record with the ownership fields of an object record.
DirOf(o) == [f \in Range(MantaDirectoryFields) |-> o[f]]

(***************************************************************************)
(* Input payloads                                                          *)
(***************************************************************************)
\* The lower-camel-case key of a field, as external producers spell it.
CamelKey(f) ==
    CASE f = "content_length" -> <<"c","o","n","t","e","n","t","L","e","n","g","t","h">>
      [] f = "content_md5" -> <<"c","o","n","t","e","n","t","M","d","5">>
      [] f = "content_type" -> <<"c","o","n","t","e","n","t","T","y","p","e">>
      [] f = "object_id" -> <<"o","b","j","e","c","t","I","d">>
      [] f = "obj_type" -> <<"o","b","j","T","y","p","e">>
      [] OTHER -> Ident(f)

\* The listed alias key of an aliased field.
AliasKey(f) ==
    CASE f = "content_length" -> <<"c","o","n","t","e","n","t","L","e","n","g","t","h">>
      [] f = "content_md5" -> <<"c","o","n","t","e","n","t","M","D","5">>
      [] f = "content_type" -> <<"c","o","n","t","e","n","t","T","y","p","e">>
      [] f = "object_id" -> <<"o","b","j","e","c","t","I","d">>
      [] f = "obj_type" -> <<"t","y","p","e">>

RECURSIVE Entries(_, _, _, _, _)
\* The entries of record r (of shape S), fields of drop left out, fields of
\* aliased written under their alias key.
Entries(S, r, i, drop, aliased) ==
    IF i > Len(Fields(S)) THEN <<>>
    ELSE LET f == Fields(S)[i]
             k == IF f \in aliased THEN AliasKey(f) ELSE CamelKey(f)
         IN  (IF f \in drop THEN <<>> ELSE << <<k, ToJson(FieldType(f), r[f])>> >>)
             \o Entries(S, r, i + 1, drop, aliased)

\* Extra entries a payload may carry.
Mangled(m) ==
    CASE m = "unknown_key" -> << <<Ident("content_length"), JNum(9)>>, <<(<<"x">>), JNull>> >>
      [] m = "duplicate" -> << <<CamelKey("content_md5"), JStr(<<"z">>)>>, <<AliasKey("content_md5"), JStr(<<"z">>)>> >>
      [] m = "wrong_type" -> << <<Ident("mtime"), JStr(<<"1">>)>> >>
      [] OTHER -> <<>>

Mangles == {"none", "unknown_key", "duplicate", "wrong_type"}

\* At most this many required fields are left out of one payload.
MaxMissing == 1

DropSets(S) ==
    {req \cup opt : req \in {d \in SUBSET (RequiredFields \cap Range(Fields(S))) : Cardinality(d) <= MaxMissing},
                    opt \in SUBSET (OptionalFields \cap Range(Fields(S)))}

NoArg == [drop |-> {}, aliased |-> {}, field |-> "", mangle |-> "none", tag |-> "", pos |-> "", variant |-> "", from |-> ""]

\* The tag values tried, by name; "absent" is a payload without the tag entry.
TagText(t) ==
    CASE t = "object" -> JStr(<<"o","b","j","e","c","t">>)
      [] t = "directory" -> JStr(<<"d","i","r","e","c","t","o","r","y">>)
      [] t = "Object" -> JStr(<<"O","b","j","e","c","t">>)
      [] t = "Directory" -> JStr(<<"D","i","r","e","c","t","o","r","y">>)
      [] t = "OBJECT" -> JStr(<<"O","B","J","E","C","T">>)
      [] t = "unknown" -> JStr(<<"u","n","k","n","o","w","n">>)
      [] t = "empty" -> JStr(<<>>)

Tags == {"absent", "object", "directory", "Object", "Directory", "OBJECT", "unknown", "empty"}

TaggedPayload(t, pos, body) ==
    LET tagEntry == IF t = "absent" THEN <<>> ELSE << <<TagKey, TagText(t)>> >>
    IN  IF pos = "first" THEN JObj(tagEntry \o body) ELSE JObj(body \o tagEntry)

(***************************************************************************)
(* Record model: parsing and serializing structured input                  *)
(***************************************************************************)
Init ==
    /\ op = "init"
    /\ mobj \in Objects
    /\ shark = DefaultShark
    /\ arg = NoArg
    /\ cell = NullCell
    /\ payload = JNull
    /\ res = NoResult
    /\ res2 = NoResult

\* serde_json::from_value::<MantaObject>(payload)
ParseObject ==
    /\ op = "init"
    /\ \E drop \in DropSets("MantaObject"), aliased \in {{}, AliasedFields}, m \in Mangles :
        /\ m = "none" \/ drop = {}
        /\ payload' = JObj(Entries("MantaObject", mobj, 1, drop, aliased) \o Mangled(m))
        /\ arg' = [NoArg EXCEPT !.drop = drop, !.aliased = aliased, !.mangle = m]
        /\ res' = Deserialize_Struct("MantaObject", payload')
        /\ op' = "parse_object"
        /\ UNCHANGED <<mobj, shark, cell, res2>>

\* Two payloads that differ only in the key field f is written under (its
\* alias key, its lower-camel-case key), both parsed as MantaObject.
ParseAliasPair ==
    /\ op = "init"
    /\ \E f \in AliasedFields :
       \E others \in SUBSET (AliasedFields \ {f}), drop \in {{}, OptionalFields \ {f}} :
        /\ payload' = JObj(Entries("MantaObject", mobj, 1, drop, others \cup {f}))
        /\ arg' = [NoArg EXCEPT !.drop = drop, !.aliased = others \cup {f}, !.field = f]
        /\ res' = Deserialize_Struct("MantaObject", payload')
        /\ res2' = Deserialize_Struct("MantaObject",
                                      JObj(Entries("MantaObject", mobj, 1, drop, others)))
        /\ op' = "parse_alias_pair"
        /\ UNCHANGED <<mobj, shark, cell>>

\* serde_json::from_value::<MantaDirectory>(payload)
ParseDirectory ==
    /\ op = "init"
    /\ \E drop \in DropSets("MantaDirectory"), m \in Mangles :
        /\ m = "none" \/ drop = {}
        /\ payload' = JObj(Entries("MantaDirectory", DirOf(mobj), 1, drop, {}) \o Mangled(m))
        /\ arg' = [NoArg EXCEPT !.drop = drop, !.mangle = m]
        /\ res' = Deserialize_Struct("MantaDirectory", payload')
        /\ op' = "parse_directory"
        /\ UNCHANGED <<mobj, shark, cell, res2>>

\* serde_json::from_value::<ObjectType>(payload)
ParseObjectType ==
    /\ op = "init"
    /\ \E t \in Tags, pos \in {"first", "last"}, S \in {"MantaObject", "MantaDirectory"},
       drop \in DropSets("MantaDirectory") :
        /\ payload' = TaggedPayload(t, pos,
                         Entries(S, IF S = "MantaObject" THEN mobj ELSE DirOf(mobj), 1,
                                 drop \cup {"obj_type"}, {}))
        /\ arg' = [NoArg EXCEPT !.drop = drop, !.tag = t, !.pos = pos, !.variant = S]
        /\ res' = Deserialize_ObjectType(payload')
        /\ op' = "parse_objecttype"
        /\ UNCHANGED <<mobj, shark, cell, res2>>

\* serde_json::to_value(&ObjectType::Object(mobj)) or of the Directory variant
SerializeObjectType ==
    /\ op = "init"
    /\ \E v \in Range(Variants) :
        /\ payload' = Serialize_ObjectType(
                         ObjectType(v, IF v = "Object" THEN mobj ELSE DirOf(mobj)))
        /\ arg' = [NoArg EXCEPT !.variant = v]
        /\ res' = NoResult
        /\ op' = "serialize_objecttype"
        /\ UNCHANGED <<mobj, shark, cell, res2>>

\* ... parsed back as ObjectType
ReparseObjectType ==
    /\ op = "serialize_objecttype"
    /\ res' = Deserialize_ObjectType(payload)
    /\ op' = "reparse_objecttype"
    /\ UNCHANGED <<mobj, shark, arg, cell, payload, res2>>

Next ==
    \/ ParseObject
    \/ ParseAliasPair
    \/ ParseDirectory
    \/ ParseObjectType
    \/ SerializeObjectType
    \/ ReparseObjectType

Spec == Init /\ [][Next]_vars

(***************************************************************************)
(* Persistence codec: a record is written to a column and read back        *)
(***************************************************************************)
\* Column values this codec did not write.
ForeignCells(o) ==
    { TextCell(NotJson),
      TextCell(to_string(JNull)),
      TextCell(to_string(JObj(Entries("MantaObject", o, 1, {"key"}, {})))),
      TextCell(to_string(JObj(Entries("MantaObject", o, 1, {}, AliasedFields)))) }

CodecInit ==
    /\ op = "init"
    /\ mobj \in CodecObjects
    /\ shark = DefaultShark
    /\ arg = NoArg
    /\ cell = NullCell
    /\ payload = JNull
    /\ res = NoResult
    /\ res2 = NoResult

\* ToSql::to_sql(&mobj, out): the column takes the written text.
ToSql ==
    /\ op = "init"
    /\ cell' = to_sql(mobj)
    /\ op' = "to_sql"
    /\ UNCHANGED <<mobj, shark, arg, payload, res, res2>>

\* Another writer of the column.
StoreForeign ==
    /\ op = "init"
    /\ cell' \in ForeignCells(mobj)
    /\ op' = "store"
    /\ UNCHANGED <<mobj, shark, arg, payload, res, res2>>

\* FromSql::from_sql(bytes) on the column value, NULL included.
FromSql ==
    /\ op \in {"init", "to_sql", "store"}
    /\ res' = from_sql(cell)
    /\ arg' = [NoArg EXCEPT !.from = op]
    /\ op' = "from_sql"
    /\ UNCHANGED <<mobj, shark, cell, payload, res2>>

CodecNext ==
    \/ ToSql
    \/ StoreForeign
    \/ FromSql

CodecSpec == CodecInit /\ [][CodecNext]_vars

(***************************************************************************)
(* Generators: Arbitrary for MantaObjectShark and MantaObject              *)
(***************************************************************************)
\* The randomness source is a number x; Step(x, k) is its k-th output.
Step(x, k) == (x * 31 + k * 17 + x * k * 3 + 7) % 1021

\* g.gen_range(low, high): a value of low..high-1.
gen_range(x, low, high) == low + (x % (high - low))

GenRangeLo == 1

GenRangeHi == 100

U8Max == 255

\* g.gen::<u8>()
gen_u8(x) == x % (U8Max + 1)

\* g.gen::<u64>(), kept small: no property depends on its width.
gen_u64(x, k) == Step(x, k)

Alphanumeric == <<"A","B","C","D","E","F","G","H","I","J","K","L","M","N","O","P","Q","R","S","T","U","V","W","X","Y","Z","a","b","c","d","e","f","g","h","i","j","k","l","m","n","o","p","q","r","s","t","u","v","w","x","y","z","0","1","2","3","4","5","6","7","8","9">>

\* util::random_string(g, len): len characters, each a letter or a digit.
\* call numbers the use of g within one generator run.
random_string(x, call, len) ==
    [i \in 1..len |-> Alphanumeric[(Step(x, call * (U8Max + 1) + i) % Len(Alphanumeric)) + 1]]

RECURSIVE Decimal(_)
\* format!("{}", n) of an unsigned number.
Decimal(n) == IF n < 10 THEN <<Digits[n + 1]>> ELSE Decimal(n \div 10) \o <<Digits[(n % 10) + 1]>>

msid_NoLen(len, a, b) == a \o <<".">> \o b

\* format!("{}.{}.{}", len, a, b)
msid(len, a, b) == Decimal(len) \o <<".">> \o a \o <<".">> \o b

\* MantaObjectShark::arbitrary(g); call is the number of random_string
\* calls already made on g.
MantaObjectShark_arbitrary(x, call) ==
    LET len == gen_range(Step(x, call), GenRangeLo, GenRangeHi)
    IN  [datacenter |-> random_string(x, call + 3, len),
         manta_storage_id |-> msid(len, random_string(x, call + 1, len), random_string(x, call + 2, len))]

HexDigits == <<"0","1","2","3","4","5","6","7","8","9","a","b","c","d","e","f">>

\* Uuid::new_v4(): 16 random bytes with the version and variant bits set.
Uuid_new_v4(x, n) ==
    [i \in 1..16 |->
        LET b == Step(x, 5000 + n * 16 + i) % 256
        IN  IF i = 7 THEN (b % 16) + 64
            ELSE IF i = 9 THEN (b % 64) + 128
            ELSE b]

RECURSIVE HexOf(_, _)
HexOf(bytes, i) ==
    IF i > Len(bytes) THEN <<>>
    ELSE <<HexDigits[(bytes[i] \div 16) + 1], HexDigits[(bytes[i] % 16) + 1]>> \o HexOf(bytes, i + 1)

Uuid_to_simple(u) == HexOf(u, 1)

\* Display of a Uuid: lower-case hex in groups of 8-4-4-4-12.
Uuid_to_string(u) ==
    LET h == HexOf(u, 1)
    IN  SubSeq(h, 1, 8) \o <<"-">> \o SubSeq(h, 9, 12) \o <<"-">> \o SubSeq(h, 13, 16)
        \o <<"-">> \o SubSeq(h, 17, 20) \o <<"-">> \o SubSeq(h, 21, 32)

IsHex(c) == to_ascii_lowercase(c) \in Range(HexDigits)

HexVal(c) == IndexOf(HexDigits, to_ascii_lowercase(c)) - 1

\* Uuid::from_str: the hyphenated form or the 32-digit form, either case.
Uuid_from_str(s) ==
    LET h == IF Len(s) = 36
             THEN SubSeq(s, 1, 8) \o SubSeq(s, 10, 13) \o SubSeq(s, 15, 18)
                  \o SubSeq(s, 20, 23) \o SubSeq(s, 25, 36)
             ELSE s
    IN  IF Len(s) \notin {32, 36} THEN Err([src |-> "uuid", kind |-> "length", what |-> ""])
        ELSE IF Len(s) = 36 /\ \E i \in {9, 14, 19, 24} : s[i] # "-"
        THEN Err([src |-> "uuid", kind |-> "group", what |-> ""])
        ELSE IF \E i \in 1..32 : ~IsHex(h[i])
        THEN Err([src |-> "uuid", kind |-> "character", what |-> ""])
        ELSE Ok([i \in 1..16 |-> HexVal(h[2 * i - 1]) * 16 + HexVal(h[2 * i])])

new_v4_string_Simple(x, n) == Uuid_to_simple(Uuid_new_v4(x, n))

\* Uuid::new_v4().to_string()
new_v4_string(x, n) == Uuid_to_string(Uuid_new_v4(x, n))

Base64Alphabet == Alphanumeric \o <<"+", "/">>

RECURSIVE base64_encode(_)
base64_encode(b) ==
    IF Len(b) = 0 THEN <<>>
    ELSE IF Len(b) = 1
    THEN <<Base64Alphabet[(b[1] \div 4) + 1], Base64Alphabet[((b[1] % 4) * 16) + 1], "=", "=">>
    ELSE IF Len(b) = 2
    THEN <<Base64Alphabet[(b[1] \div 4) + 1], Base64Alphabet[((b[1] % 4) * 16 + (b[2] \div 16)) + 1],
           Base64Alphabet[((b[2] % 16) * 4) + 1], "=">>
    ELSE <<Base64Alphabet[(b[1] \div 4) + 1], Base64Alphabet[((b[1] % 4) * 16 + (b[2] \div 16)) + 1],
           Base64Alphabet[((b[2] % 16) * 4 + (b[3] \div 64)) + 1], Base64Alphabet[(b[3] % 64) + 1]>>
         \o base64_encode(SubSeq(b, 4, Len(b)))

\* md5::compute(s): 16 bytes determined by s (the digest itself is abstracted).
md5_compute(s) ==
    [i \in 1..16 |-> (Len(s) * 13 + i * 29 + (IF Len(s) = 0 THEN 0 ELSE IndexOf(Alphanumeric, s[1]))) % 256]

\* MantaObject::arbitrary(g)
MantaObject_arbitrary(x) ==
    LET len == gen_u8(x)
        headers_map ==
            MapInsert(MapInsert(MapInsert(<<>>,
                random_string(x, 1, len), JStr(random_string(x, 2, len))),
                random_string(x, 3, len), JStr(random_string(x, 4, len))),
                random_string(x, 5, len), JStr(random_string(x, 6, len)))
    IN  [headers |-> JObj(headers_map),
         key |-> random_string(x, 7, len),
         mtime |-> gen_u64(x, 1),
         name |-> random_string(x, 10, len),
         dirname |-> random_string(x, 9, len),
         creator |-> random_string(x, 8, len),
         owner |-> new_v4_string(x, 1),
         roles |-> <<random_string(x, 11, len)>>,
         vnode |-> gen_u64(x, 2),
         content_length |-> gen_u64(x, 3),
         content_md5 |-> base64_encode(md5_compute(random_string(x, 12, len))),
         content_type |-> random_string(x, 13, len),
         object_id |-> new_v4_string(x, 3),
         etag |-> new_v4_string(x, 2),
         sharks |-> <<MantaObjectShark_arbitrary(x, 14), MantaObjectShark_arbitrary(x, 17)>>,
         obj_type |-> <<"o","b","j","e","c","t">>]

\* States of the randomness source tried: 0..MaxRng.
MaxRng == 511

GenInit ==
    /\ op = "init"
    /\ mobj = DefaultObject
    /\ shark = DefaultShark
    /\ arg = NoArg
    /\ cell = NullCell
    /\ payload = JNull
    /\ res = NoResult
    /\ res2 = NoResult

ArbitraryShark ==
    /\ op = "init"
    /\ \E x \in 0..MaxRng : shark' = MantaObjectShark_arbitrary(x, 0)
    /\ op' = "arbitrary_shark"
    /\ UNCHANGED <<mobj, arg, cell, payload, res, res2>>

ArbitraryObject ==
    /\ op = "init"
    /\ \E x \in 0..MaxRng : mobj' = MantaObject_arbitrary(x)
    /\ op' = "arbitrary_object"
    /\ UNCHANGED <<shark, arg, cell, payload, res, res2>>

GenNext ==
    \/ ArbitraryShark
    \/ ArbitraryObject

GenSpec == GenInit /\ [][GenNext]_vars

(***************************************************************************)
(* Properties of the persistence codec (CodecSpec)                         *)
(***************************************************************************)
\* C1: a record written by to_sql and read back by from_sql decodes
\* successfully to a record equal to the original in every field, default
\* values of the optional fields included.
C1_RoundTrip ==
    (op = "from_sql" /\ arg.from = "to_sql") =>
        /\ cell = to_sql(mobj)
        /\ res.ok
        /\ \A f \in Range(MantaObjectFields) : res.val[f] = mobj[f]
        /\ res = Ok(mobj)

C1_Witness ==
    /\ op = "from_sql" /\ arg.from = "to_sql" /\ res.ok
    /\ mobj.key = <<"o","b","j","1">> /\ mobj.mtime = 100
    /\ mobj.content_length = 0 /\ mobj.sharks = <<>>
    /\ res.val.content_length = 0 /\ res.val.sharks = <<>>

\* C2: from_sql on a NULL column fails with UnexpectedNullError and returns
\* no record; every failure on a column that holds text (not JSON, or JSON
\* lacking a required field) is a serde_json error, a different outcome.
C2_AbsentCell ==
    op = "from_sql" =>
        /\ cell.null => (~res.ok /\ res = UnexpectedNullError)
        /\ (~cell.null /\ ~res.ok) => (res.err.src = "serde_json" /\ res # UnexpectedNullError)

C2_Witness == op = "from_sql" /\ cell.null /\ ~res.ok /\ res.err.kind = "UnexpectedNullError"

IsLowerCamel(k) == Len(k) > 0 /\ IsLower(k[1]) /\ \A i \in 1..Len(k) : k[i] # "_"

\* The value stored under key k of a JSON object's entries (first entry).
ValueAt(m, k) == m[CHOOSE i \in 1..Len(m) : m[i][1] = k][2]

\* C9 as stated: every key of the encoded text, top-level or of an entry of
\* sharks, is lower-camel-case.
C9_AllKeysCamel ==
    op = "to_sql" =>
        LET m == cell.text.doc.m
            sh == ValueAt(m, <<"s","h","a","r","k","s">>).a
        IN  /\ \A i \in 1..Len(m) : IsLowerCamel(m[i][1])
            /\ \A i \in 1..Len(sh) : \A k \in 1..Len(sh[i].m) : IsLowerCamel(sh[i].m[k][1])

\* C9 amended: the top-level keys of the encoded text are the lower-camel-case
\* names of the record's fields; the entries of sharks keep the declared
\* names datacenter and manta_storage_id.
C9_TopLevelKeysCamel ==
    op = "to_sql" =>
        LET m == cell.text.doc.m
            sh == ValueAt(m, <<"s","h","a","r","k","s">>).a
        IN  /\ Len(m) = Len(MantaObjectFields)
            /\ \A i \in 1..Len(m) : IsLowerCamel(m[i][1]) /\ m[i][1] = CamelKey(MantaObjectFields[i])
            /\ \A i \in 1..Len(sh) :
                  /\ Len(sh[i].m) = 2
                  /\ sh[i].m[1][1] = <<"d","a","t","a","c","e","n","t","e","r">>
                  /\ sh[i].m[2][1] = <<"m","a","n","t","a","_","s","t","o","r","a","g","e","_","i","d">>

C9_Witness == op = "to_sql" /\ Len(mobj.sharks) = 2 /\ ~cell.null /\ mobj.content_md5 # <<>>

(***************************************************************************)
(* Properties of the record model (Spec)                                   *)
(***************************************************************************)
\* C3 as stated: the tag "object" gives the Object variant, "directory" the
\* Directory variant, and a payload with any other tag string, or none, fails.
C3_OnlyLowercaseTags ==
    op = "parse_objecttype" =>
        /\ (arg.tag = "object" /\ arg.drop = {}) => (res.ok /\ res.val.variant = "Object")
        /\ (arg.tag = "directory" /\ arg.drop = {}) => (res.ok /\ res.val.variant = "Directory")
        /\ arg.tag \notin {"object", "directory"} => ~res.ok

\* C3 amended: matching is exact and case-sensitive; "object" and the variant
\* name "Object" give the Object variant, "directory" and "Directory" the
\* Directory variant; any other tag string, or no tag, fails with no record.
C3_TagDispatch ==
    op = "parse_objecttype" =>
        /\ (arg.tag \in {"object", "Object"} /\ arg.drop = {}) => (res.ok /\ res.val.variant = "Object")
        /\ (arg.tag \in {"directory", "Directory"} /\ arg.drop = {}) => (res.ok /\ res.val.variant = "Directory")
        /\ arg.tag \notin {"object", "Object", "directory", "Directory"} =>
              (~res.ok /\ res.err.kind \in {"missing field", "unknown variant"})

C3_Witness ==
    /\ op = "parse_objecttype" /\ arg.tag = "Object" /\ arg.drop = {} /\ arg.pos = "last"
    /\ res.ok /\ res.val.variant = "Object"

\* C4: for MantaObject and MantaDirectory, a payload lacking a required field
\* fails with one missing-field error naming such a field, and gives no
\* record, whatever optional fields are present.
C4_RequiredFields ==
    (op \in {"parse_object", "parse_directory"} /\ arg.drop \cap RequiredFields # {}) =>
        /\ ~res.ok
        /\ DOMAIN res = {"ok", "err"}
        /\ res.err.kind = "missing field"
        /\ res.err.what \in arg.drop \cap RequiredFields

C4_Witness ==
    /\ op = "parse_directory" /\ arg.drop = {"roles"} /\ ~res.ok /\ res.err.what = "roles"

\* The zero value of each optional field.
Zero(f) == IF f = "content_length" THEN 0 ELSE <<>>

\* C5: a MantaObject payload with every required field that omits a subset
\* of the optional ones parses; each omitted field is zero and each present
\* field has the value of the input.
C5_DefaultFilling ==
    (op = "parse_object" /\ arg.drop \subseteq OptionalFields /\ arg.mangle = "none") =>
        /\ res.ok
        /\ \A f \in Range(MantaObjectFields) :
              res.val[f] = IF f \in arg.drop THEN Zero(f) ELSE mobj[f]

C5_Witness ==
    /\ op = "parse_object" /\ arg.drop = OptionalFields /\ arg.mangle = "none" /\ res.ok
    /\ mobj.content_length # 0 /\ res.val.content_length = 0
    /\ mobj.sharks # <<>> /\ res.val.sharks = <<>>

\* C6: the payload with an aliased field under its alias key and the payload
\* with it under its lower-camel-case key both parse, to equal records whose
\* field has the given value.
C6_AliasAcceptance ==
    op = "parse_alias_pair" =>
        /\ res.ok /\ res2.ok
        /\ res.val = res2.val
        /\ res.val[arg.field] = mobj[arg.field]

C6_Witness ==
    /\ op = "parse_alias_pair" /\ arg.field = "content_md5" /\ mobj.content_md5 # <<>>
    /\ res.ok /\ res2.ok /\ res.val.content_md5 = mobj.content_md5

\* C10: serializing an ObjectType value writes the type entry and then the
\* variant's fields, and parsing that output gives the same variant around
\* an equal record, obj_type included.
C10_TaggedRoundTrip ==
    op = "reparse_objecttype" =>
        LET S == VariantStruct(arg.variant)
            r == IF arg.variant = "Object" THEN mobj ELSE DirOf(mobj)
        IN  /\ payload.m[1][1] = TagKey /\ payload.m[1][2].t = "str"
            /\ Len(payload.m) = 1 + Len(Fields(S))
            /\ \A i \in 1..Len(Fields(S)) :
                  payload.m[i + 1] = <<CamelKey(Fields(S)[i]), ToJson(FieldType(Fields(S)[i]), r[Fields(S)[i]])>>
            /\ res.ok
            /\ res.val.variant = arg.variant
            /\ \A f \in Range(Fields(S)) : res.val.rec[f] = r[f]

C10_Witness ==
    /\ op = "reparse_objecttype" /\ arg.variant = "Object" /\ res.ok
    /\ mobj.obj_type = <<"o","b","j","e","c","t">> /\ res.val.rec.obj_type = mobj.obj_type

(***************************************************************************)
(* Properties of the generators (GenSpec)                                  *)
(***************************************************************************)
IsGrouped(s) ==
    /\ Len(s) = 36
    /\ \A i \in 1..36 : IF i \in {9, 14, 19, 24} THEN s[i] = "-" ELSE IsHex(s[i])

\* C7: owner, etag and object_id of a generated MantaObject parse as UUID
\* text in 8-4-4-4-12 hex groups, and the parsed UUID prints as the stored
\* text; so too when the length hint is 0.
C7_UuidFields ==
    op = "arbitrary_object" =>
        \A f \in {"owner", "etag", "object_id"} :
            /\ IsGrouped(mobj[f])
            /\ Uuid_from_str(mobj[f]).ok
            /\ Uuid_to_string(Uuid_from_str(mobj[f]).val) = mobj[f]

C7_Witness ==
    /\ op = "arbitrary_object" /\ Len(mobj.key) = 0
    /\ Uuid_from_str(mobj.owner).ok /\ mobj.owner # mobj.etag /\ mobj.etag # mobj.object_id

IsToken(c) == IsLower(c) \/ IsUpper(c) \/ IsDigit(c) \/ c = "-"

RECURSIVE RunEnd(_, _, _)
\* The index after the longest run of digits (digit = TRUE) or of token
\* characters that starts at index i.
RunEnd(s, i, digit) ==
    IF i > Len(s) THEN i
    ELSE IF (digit /\ IsDigit(s[i])) \/ (~digit /\ IsToken(s[i])) THEN RunEnd(s, i + 1, digit)
    ELSE i

\* ^\d+\.[A-Za-z0-9-]+\.[A-Za-z0-9-]+$
MatchesStorageId(s) ==
    LET i == RunEnd(s, 1, TRUE)
        j == RunEnd(s, i + 1, FALSE)
        k == RunEnd(s, j + 1, FALSE)
    IN  /\ i > 1 /\ i <= Len(s) /\ s[i] = "."
        /\ j > i + 1 /\ j <= Len(s) /\ s[j] = "."
        /\ k > j + 1 /\ k = Len(s) + 1

====
